---- MODULE Spec2Model ----
(***************************************************************************)
(* Fraud-Risk-Intelligence-System: the inference core.                     *)
(*                                                                         *)
(*   src/src/models.py             artifact cache (load_models), input     *)
(*                                 validation, base signals, meta-feature  *)
(*                                 assembly, stacked decision (predict)    *)
(*   src/src/feature_inference.py  prepare_features and its contract guard *)
(*   src/src/features.py           feature_pipeline and its stages         *)
(*                                                                         *)
(* Numbers: a score, a threshold and a feature value are floats in the     *)
(* program; here they are small naturals (a probability is counted in      *)
(* units of 1/MaxScore).  float(v) and the float32 cast of the meta vector *)
(* are exact on that range.  A frozen model binary is a fixed, order-      *)
(* sensitive function of the slice it is handed.                           *)
(***************************************************************************)
EXTENDS Integers, Sequences, FiniteSets, TLC

\* ------------------------------------------------------------------ bounds
NThreads == 2
MaxScore == 3
MaxDefects == 2

Threads == 1..NThreads

\* ------------------------------------------------------------ plain helpers
Range(s) == {s[i] : i \in 1..Len(s)}

IndexOf(s, x) == CHOOSE i \in 1..Len(s) : s[i] = x

RECURSIVE WSum(_)
WSum(s) == IF Len(s) = 0 THEN 0 ELSE Len(s) * s[Len(s)] + WSum(SubSeq(s, 1, Len(s) - 1))

\* Every column / feature name the model uses, in Python's string order
\* (upper case before lower case), so that sorted() can be computed.
NameOrder ==
    << "Amount", "Class", "Time", "V1", "V2", "V29", "account_age_days",
       "account_age_days_missing", "account_id", "account_id_fe",
       "account_txn_count", "amount_log", "amount_scaled",
       "amount_times_age", "cluster_id", "dayofweek", "device_freq",
       "device_type", "device_type_fe", "device_type_missing", "feat_1",
       "feat_2", "geo_bucket", "geo_bucket_fe", "geo_bucket_missing",
       "hour", "is_new_merchant", "last_5_count", "last_5_mean_amount",
       "merchant_freq", "merchant_id", "merchant_id_fe",
       "merchant_id_missing", "note", "pca_x", "pca_y", "timestamp" >>

\* sorted(S) for a set S of names
Sorted(S) == SelectSeq(NameOrder, LAMBDA n : n \in S)

\* (mutant) only the first absent name is reported
ListFirstMissing(order, have) ==
    LET all == SelectSeq(order, LAMBDA f : f \notin have)
    IN  IF all = << >> THEN << >> ELSE << all[1] >>

\* [f for f in order if f not in have]
ListMissing(order, have) == SelectSeq(order, LAMBDA f : f \notin have)

\* --------------------------------------------------------- persistent files
\* The order in which load_models touches the artifact files.
LoadOrder ==
    << "metrics.json", "xgb_features.json", "iforest_features.json",
       "ae_features.json", "stacker.joblib", "xgb.joblib", "iforest.joblib",
       "autoencoder.pt" >>

Files == Range(LoadOrder)

FeatureFiles == {"xgb_features.json", "iforest_features.json", "ae_features.json"}

Shapes == {"ok", "nokey", "notlist"}

\* The engineered names the test fixture and scripts/test_models.py use.
FixtureFeatures ==
    << "feat_1", "feat_2", "amount_log", "merchant_freq", "account_txn_count",
       "last_5_mean_amount", "cluster_id" >>

FixtureMeta ==
    << "xgb_oof_proba", "anomaly_score", "ae_recon_error", "cluster_id",
       "amount_log", "merchant_freq", "account_txn_count", "last_5_mean_amount" >>

\* Contents of the frozen files: the three feature lists, and metrics.json's
\* meta_features and final_threshold.
Contents ==
    { \* the fixture of tests/test_models.py
      [xgb |-> FixtureFeatures, iforest |-> FixtureFeatures, ae |-> FixtureFeatures,
       meta |-> FixtureMeta, thr |-> 2],
      \* three different subsets in three different orders, permuted meta order
      [xgb |-> << "cluster_id", "feat_2", "feat_1", "amount_log" >>,
       iforest |-> << "merchant_freq", "account_txn_count", "feat_1" >>,
       ae |-> << "last_5_mean_amount", "amount_log", "feat_2", "merchant_freq" >>,
       meta |-> << "last_5_mean_amount", "ae_recon_error", "amount_log", "xgb_oof_proba",
                   "cluster_id", "anomaly_score", "merchant_freq", "account_txn_count" >>,
       thr |-> 1],
      \* the variant trained without a cluster assignment
      [xgb |-> << "feat_1", "feat_2", "amount_log" >>,
       iforest |-> << "merchant_freq", "account_txn_count", "last_5_mean_amount" >>,
       ae |-> << "feat_2", "feat_1" >>,
       meta |-> << "xgb_oof_proba", "anomaly_score", "ae_recon_error", "amount_log",
                   "merchant_freq", "account_txn_count", "last_5_mean_amount" >>,
       thr |-> 1],
      \* a meta-feature order that asks for names the assembler never builds
      [xgb |-> FixtureFeatures, iforest |-> FixtureFeatures, ae |-> FixtureFeatures,
       meta |-> << "xgb_oof_proba", "device_freq", "anomaly_score", "feat_1",
                   "amount_log" >>,
       thr |-> 2] }

FixtureContents ==
    [xgb |-> FixtureFeatures, iforest |-> FixtureFeatures, ae |-> FixtureFeatures,
     meta |-> FixtureMeta, thr |-> 2]

\* A storage state: which files are absent, the shape of each feature-list
\* file's JSON, and the contents.
Defects(st) ==
    Cardinality(st.absent) + Cardinality({f \in FeatureFiles : st.shape[f] # "ok"})

Healthy(st) == Defects(st) = 0

StorageStates ==
    { st \in [absent : SUBSET Files, shape : [FeatureFiles -> Shapes], content : Contents] :
        /\ Defects(st) <= MaxDefects
        /\ \A f \in FeatureFiles : f \in st.absent => st.shape[f] = "ok"
        /\ Defects(st) > 0 => st.content = FixtureContents }


\* ------------------------------------------------- the artifact set (cache)
\* The ten entries of the dict load_models builds.  A model entry is named
\* by the binary it was loaded from.
NoArt ==
    [stacker |-> "", xgb |-> "", iforest |-> "", autoencoder |-> "",
     xgb_features |-> << >>, iforest_features |-> << >>, ae_features |-> << >>,
     meta_features |-> << >>, threshold |-> 0, required_input_features |-> << >>]

\* _MODELS = None
None == [id |-> 0, art |-> NoArt]

IsNone(c) == c.id = 0

\* (mutant) _load_feature_list without its shape test
LoadFeatureListUnchecked(st, file) ==
    IF file \in st.absent THEN [err |-> "FileNotFoundError", val |-> << >>]
    ELSE [err |-> "",
          val |-> CASE file = "xgb_features.json" -> st.content.xgb
                    [] file = "iforest_features.json" -> st.content.iforest
                    [] OTHER -> st.content.ae]

\* _load_feature_list(path, name)
LoadFeatureList(st, file) ==
    IF file \in st.absent THEN [err |-> "FileNotFoundError", val |-> << >>]
    ELSE IF st.shape[file] # "ok" THEN [err |-> "ValueError", val |-> << >>]
    ELSE [err |-> "",
          val |-> CASE file = "xgb_features.json" -> st.content.xgb
                    [] file = "iforest_features.json" -> st.content.iforest
                    [] OTHER -> st.content.ae]

\* What touching one artifact file raises ("" when it loads): METRICS_PATH's
\* exists() test, _load_feature_list, joblib's load and torch.load.
FileError(st, file) ==
    IF file \in FeatureFiles THEN LoadFeatureList(st, file).err
    ELSE IF file \in st.absent THEN "FileNotFoundError"
    ELSE ""

\* sorted(set(xgb_features) | set(iforest_features) | set(ae_features))
RequiredInputFeatures(xgb, iforest, ae) ==
    Sorted(Range(xgb) \cup Range(iforest) \cup Range(ae))

\* The dict assigned to _MODELS.
BuildArtifacts(st) ==
    [stacker |-> "stacker.joblib",
     xgb |-> "xgb.joblib",
     iforest |-> "iforest.joblib",
     autoencoder |-> "autoencoder.pt",
     xgb_features |-> LoadFeatureList(st, "xgb_features.json").val,
     iforest_features |-> LoadFeatureList(st, "iforest_features.json").val,
     ae_features |-> LoadFeatureList(st, "ae_features.json").val,
     meta_features |-> st.content.meta,
     threshold |-> st.content.thr,
     required_input_features |->
         RequiredInputFeatures(st.content.xgb, st.content.iforest, st.content.ae)]

\* The body of load_models past the cache test: the files are touched in
\* LoadOrder and the first one that fails ends the call.
\* reads counts the files touched.
LoadFromStorage(st) ==
    LET failing == {i \in 1..Len(LoadOrder) : FileError(st, LoadOrder[i]) # ""}
    IN  IF failing = {}
        THEN [err |-> "", file |-> "", reads |-> Len(LoadOrder), art |-> BuildArtifacts(st)]
        ELSE LET i == CHOOSE j \in failing : \A k \in failing : j <= k
             IN  [err |-> FileError(st, LoadOrder[i]), file |-> LoadOrder[i],
                  reads |-> i, art |-> NoArt]


\* ------------------------------------------------------------ request input
\* A value handed to predict(): a dict (vals: key -> value, bad: the keys
\* whose value is not an int / float / numpy number) or something else.
EngNames == Range(FixtureFeatures)

BaseVal(n) == IndexOf(NameOrder, n)

EngInput(v) ==
    [isdict |-> TRUE,
     vals |-> [n \in EngNames |-> IF n = "amount_log" THEN v ELSE BaseVal(n)],
     bad |-> {}]

Without(input, names) ==
    [input EXCEPT !.vals = [n \in (DOMAIN input.vals) \ names |-> input.vals[n]]]

\* a raw transaction row, as scripts/dry_run.py hands to predict()
RawInput ==
    [isdict |-> TRUE, vals |-> [n \in {"Time", "Amount", "V1"} |-> BaseVal(n)], bad |-> {}]

NotADict == [isdict |-> FALSE, vals |-> << >>, bad |-> {}]

Inputs ==
    {EngInput(v) : v \in 0..MaxScore}
    \cup {Without(EngInput(1), {n}) : n \in EngNames}
    \cup {Without(EngInput(1), {"feat_1", "cluster_id"}),
          Without(EngInput(1), {"amount_log", "feat_2", "merchant_freq"})}
    \cup {[EngInput(1) EXCEPT !.bad = {n}] : n \in EngNames}
    \cup {[EngInput(1) EXCEPT !.bad = {"feat_2", "amount_log"}],
          [Without(EngInput(1), {"feat_1"}) EXCEPT !.bad = {"feat_2"}]}
    \cup {RawInput, NotADict}

\* --------------------------------------------------- the result of a request
\* out: "ok" or the error raised; detail: the names the error lists;
\* trace: the stages the request went through, in order.
Result(out, detail, trace) ==
    [out |-> out, detail |-> detail, trace |-> trace,
     xmeta |-> << >>, metarow |-> << >>, score |-> 0, label |-> ""]

\* --------------------------------------------------------- validate_input
\* (mutant) an absent feature is filled with 0 instead of rejected
ValidateInputZeroFill(art, input) ==
    IF ~input.isdict
    THEN [err |-> "TypeError:not a dict", detail |-> << >>, trace |-> << "validate_input" >>,
          df |-> << >>]
    ELSE
    LET required == art.required_input_features
        nonnum == SelectSeq(required, LAMBDA f : f \in input.bad)
        trace == << "validate_input", "load_models" >>
    IN  IF nonnum # << >>
        THEN [err |-> "TypeError:must be numeric", detail |-> << nonnum[1] >>,
              trace |-> trace, df |-> << >>]
        ELSE [err |-> "", detail |-> << >>, trace |-> trace,
              df |-> [f \in Range(required) |->
                         IF f \in DOMAIN input.vals THEN input.vals[f] ELSE 0]]

ValidateInput(art, input) ==
    IF ~input.isdict
    THEN [err |-> "TypeError:not a dict", detail |-> << >>, trace |-> << "validate_input" >>,
          df |-> << >>]
    ELSE
    LET required == art.required_input_features
        missing == ListMissing(required, DOMAIN input.vals)
        nonnum == SelectSeq(required, LAMBDA f : f \in input.bad)
        trace == << "validate_input", "load_models" >>
    IN  IF missing # << >>
        THEN [err |-> "ValueError:Missing required features", detail |-> missing,
              trace |-> trace, df |-> << >>]
        ELSE IF nonnum # << >>
        THEN [err |-> "TypeError:must be numeric", detail |-> << nonnum[1] >>,
              trace |-> trace, df |-> << >>]
        ELSE [err |-> "", detail |-> << >>, trace |-> trace,
              df |-> [f \in Range(required) |-> input.vals[f]]]

\* ------------------------------------------------------ the frozen models
\* input_df[features].values : the row restricted to a feature list, in the
\* list's order
Slice(df, features) == [i \in 1..Len(features) |-> df[features[i]]]

XgbPredictProba(X) == WSum(X) % (MaxScore + 1)

IForestDecisionFunction(X) == (WSum(X) % (MaxScore + 1)) - 1

AutoencoderForward(X) == [i \in 1..Len(X) |-> (X[i] + i) % (MaxScore + 1)]

RECURSIVE SumSqDiff(_, _)
SumSqDiff(a, b) ==
    IF Len(a) = 0 THEN 0
    ELSE (a[1] - b[1]) * (a[1] - b[1]) + SumSqDiff(Tail(a), Tail(b))

StackerPredictProba(X) == WSum(X) % (MaxScore + 1)

\* ---------------------------------------------------- compute_base_signals
ComputeBaseSignals(art, df) ==
    LET X_xgb == Slice(df, art.xgb_features)
        X_if == Slice(df, art.iforest_features)
        X_ae == Slice(df, art.ae_features)
    IN  [xgb_proba |-> XgbPredictProba(X_xgb),
         anomaly_score |-> 0 - IForestDecisionFunction(X_if),
         ae_recon_error |-> SumSqDiff(AutoencoderForward(X_ae), X_ae) \div Len(X_ae),
         trace |-> << "compute_base_signals", "load_models", "xgb.predict_proba",
                      "iforest.decision_function", "autoencoder.forward" >>]

\* ----------------------------------------------------- build_meta_features
\* The contextual columns read from the validated frame, in the order read.
ContextColumns ==
    << "cluster_id", "amount_log", "merchant_freq", "account_txn_count",
       "last_5_mean_amount" >>

\* meta_row, as the sequence of (name, value) pairs in insertion order
MetaRow(signals, df) ==
    << << "xgb_oof_proba", signals.xgb_proba >>,
       << "anomaly_score", signals.anomaly_score >>,
       << "ae_recon_error", signals.ae_recon_error >> >>
    \o [i \in 1..Len(ContextColumns) |-> << ContextColumns[i], df[ContextColumns[i]] >>]

RowNames(row) == {row[i][1] : i \in 1..Len(row)}

\* meta_row[f]
Lookup(row, f) == row[CHOOSE i \in 1..Len(row) : row[i][1] = f][2]

\* (mutant) the vector taken in the mapping's insertion order
OrderMetaPositional(row, meta_features) ==
    [i \in 1..Len(meta_features) |-> row[i][2]]

\* np.array([[meta_row[f] for f in meta_features]])
OrderMeta(row, meta_features) ==
    [i \in 1..Len(meta_features) |-> Lookup(row, meta_features[i])]

BuildMetaFeatures(art, input) ==
    LET v == ValidateInput(art, input)
    IN  IF v.err # "" THEN Result(v.err, v.detail, v.trace)
        ELSE
        LET signals == ComputeBaseSignals(art, v.df)
            t1 == v.trace \o signals.trace
            nocol == ListMissing(ContextColumns, DOMAIN v.df)
        IN  IF nocol # << >> THEN Result("KeyError", << nocol[1] >>, t1)
            ELSE
            LET row == MetaRow(signals, v.df)
                t2 == t1 \o << "assemble", "load_models" >>
                missing == ListMissing(art.meta_features, RowNames(row))
            IN  IF missing # << >>
                THEN [Result("ValueError:Missing meta features", missing, t2)
                        EXCEPT !.metarow = row]
                ELSE [Result("ok", << >>, t2)
                        EXCEPT !.metarow = row,
                               !.xmeta = OrderMeta(row, art.meta_features)]

\* ------------------------------------------------------------ predict_proba
PredictProba(art, input) ==
    LET m == BuildMetaFeatures(art, input)
        t == << "load_models" >> \o m.trace
    IN  IF m.out # "ok" THEN [m EXCEPT !.trace = t]
        ELSE [m EXCEPT !.trace = t \o << "stacker.predict_proba" >>,
                       !.score = StackerPredictProba(m.xmeta)]

\* (mutant) a score equal to the threshold is "legit"
LabelStrictlyAbove(score, threshold) == IF score > threshold THEN "fraud" ELSE "legit"

\* ------------------------------------------------------------------ predict
\* "fraud" if score >= threshold else "legit"
Label(score, threshold) == IF score >= threshold THEN "fraud" ELSE "legit"

\* The threshold predict compares against: models["threshold"]
DecisionThreshold(art) == art.threshold

\* predict, past its own first load_models() call: models is the dict that
\* call returned, cached the dict the nested load_models() calls return.
Predict(models, cached, input) ==
    LET p == PredictProba(cached, input)
        t == << "load_models" >> \o p.trace
    IN  IF p.out # "ok" THEN [p EXCEPT !.trace = t]
        ELSE [p EXCEPT !.trace = t \o << "threshold" >>,
                       !.label = Label(p.score, DecisionThreshold(models))]


\* =================================================== feature engineering
\* A DataFrame is the set of its columns (cols) and the ones among them that
\* select_dtypes(include=["float64", "int64", "int32"]) keeps (num).
NoFrame == [cols |-> {}, num |-> {}]

AddColumns(f, numeric, other) ==
    [cols |-> f.cols \cup numeric \cup other,
     num |-> (f.num \ other) \cup numeric]

\* The columns of the training CSV (Time, the anonymised components, Amount,
\* Class), all numeric.
TrainRawCols == {"Time", "V1", "V2", "Amount", "Class"}

\* A stage's outcome: the error it raises ("" when none) and the frame.
Stage(err, f) == [err |-> err, frame |-> f]

\* add_timestamp_features: df['Time'] must exist and be a number of seconds
AddTimestampFeatures(f) ==
    IF "Time" \notin f.cols THEN Stage("KeyError", f)
    ELSE IF "Time" \notin f.num THEN Stage("ValueError", f)
    ELSE Stage("", AddColumns(f, {"hour", "dayofweek"}, {"timestamp"}))

\* add_amount_features(df, scaler): np.log1p(df["Amount"]), scaler.transform
AddAmountFeatures(f) ==
    IF "Amount" \notin f.cols THEN Stage("KeyError", f)
    ELSE IF "Amount" \notin f.num THEN Stage("TypeError", f)
    ELSE Stage("", AddColumns(f, {"amount_log", "amount_scaled"}, {}))

\* augment_synthetic_categories
AugmentSyntheticCategories(f) ==
    Stage("", AddColumns(f, {"merchant_id", "geo_bucket", "account_id", "account_age_days"},
                            {"device_type"}))

\* add_frequency_features
AddFrequencyFeatures(f) ==
    Stage("", AddColumns(f, {"merchant_freq", "device_freq", "account_txn_count"}, {}))

\* add_rolling_features
AddRollingFeatures(f) ==
    Stage("", AddColumns(f, {"last_5_mean_amount", "last_5_count"}, {}))

\* add_missing_flags
AddMissingFlags(f) ==
    Stage("", AddColumns(f, {"merchant_id_missing", "device_type_missing",
                             "geo_bucket_missing", "account_age_days_missing"}, {}))

\* encode_categoricals(df, encoders)
EncodeCategoricals(f) ==
    Stage("", AddColumns(f, {"merchant_id_fe", "device_type_fe", "geo_bucket_fe",
                             "account_id_fe"}, {}))

\* add_interaction_features
AddInteractionFeatures(f) ==
    Stage("", AddColumns(f, {"amount_times_age", "is_new_merchant"}, {}))

\* The stages before the projection, in feature_pipeline's order.
PrePcaStages ==
    << "timestamp", "amount", "synthetic", "frequency", "rolling", "flags",
       "encode", "interaction" >>

RunPrePcaStage(name, f) ==
    CASE name = "timestamp" -> AddTimestampFeatures(f)
      [] name = "amount" -> AddAmountFeatures(f)
      [] name = "synthetic" -> AugmentSyntheticCategories(f)
      [] name = "frequency" -> AddFrequencyFeatures(f)
      [] name = "rolling" -> AddRollingFeatures(f)
      [] name = "flags" -> AddMissingFlags(f)
      [] name = "encode" -> EncodeCategoricals(f)
      [] OTHER -> AddInteractionFeatures(f)

RECURSIVE RunPrePcaStages(_, _)
RunPrePcaStages(i, f) ==
    IF i = 0 THEN f
    ELSE RunPrePcaStage(PrePcaStages[i], RunPrePcaStages(i - 1, f)).frame

\* The training frame when feature_pipeline(fit=True) reaches apply_pca.
TrainFrameBeforePca ==
    RunPrePcaStages(Len(PrePcaStages), [cols |-> TrainRawCols, num |-> TrainRawCols])

\* The numeric columns the projection was fitted on.
FittedNumericCols == TrainFrameBeforePca.num

\* apply_pca(df, pca): pca.transform(num_df) refuses a frame whose width is
\* not the fitted one; one of the fitted width under other column names is
\* refused or projected, depending on the library build (store.pcaNames).
ApplyPca(f, store) ==
    IF Cardinality(f.num) # Cardinality(FittedNumericCols) THEN Stage("ValueError", f)
    ELSE IF f.num # FittedNumericCols /\ store.pcaNames THEN Stage("ValueError", f)
    ELSE Stage("", AddColumns(f, {"pca_x", "pca_y"}, {}))

\* feature_pipeline(df, fit=False, preprocessors): its nine stages in order
StageOrder == PrePcaStages \o << "pca" >>

RunStage(name, f, store) ==
    IF name = "pca" THEN ApplyPca(f, store) ELSE RunPrePcaStage(name, f)

NextStage(name) ==
    IF name = "pca" THEN "guard" ELSE StageOrder[IndexOf(StageOrder, name) + 1]

\* What freeze_training_features.py writes to feature_columns.json: the
\* columns of the fit-mode frame.
TrainContract == AddColumns(TrainFrameBeforePca, {"pca_x", "pca_y"}, {}).cols

\* _load_preprocessors
LoadPreprocessors(store) ==
    IF ~store.preprocessors THEN "FileNotFoundError" ELSE ""

\* _load_training_feature_columns
LoadTrainingFeatureColumns(store) ==
    IF ~store.contract.present THEN [err |-> "FileNotFoundError", val |-> {}]
    ELSE IF store.contract.shape # "ok" THEN [err |-> "ValueError", val |-> {}]
    ELSE [err |-> "", val |-> store.contract.cols]

\* (mutant) the guard that looks for missing columns only
ContractGuardMissingOnly(expected, produced) ==
    LET missing == expected \ produced
    IN  IF missing # {}
        THEN [err |-> "ValueError:Feature contract mismatch",
              missing |-> Sorted(missing), extra |-> << >>]
        ELSE [err |-> "", missing |-> << >>, extra |-> << >>]

\* prepare_features, step 4: the contract guard
ContractGuard(expected, produced) ==
    LET missing == expected \ produced
        extra == produced \ expected
    IN  IF missing # {} \/ extra # {}
        THEN [err |-> "ValueError:Feature contract mismatch",
              missing |-> Sorted(missing), extra |-> Sorted(extra)]
        ELSE [err |-> "", missing |-> << >>, extra |-> << >>]

\* ---------------------------------------------- what prepare_features reads
ContractFiles ==
    {[present |-> TRUE, shape |-> "ok", cols |-> TrainContract],
     [present |-> TRUE, shape |-> "ok", cols |-> TrainContract \ {"pca_y"}],
     [present |-> TRUE, shape |-> "ok", cols |-> TrainContract \cup {"cluster_id"}],
     [present |-> TRUE, shape |-> "ok",
      cols |-> (TrainContract \ {"device_freq", "Class"}) \cup {"cluster_id"}],
     [present |-> TRUE, shape |-> "nokey", cols |-> {}],
     [present |-> TRUE, shape |-> "notlist", cols |-> {}],
     [present |-> FALSE, shape |-> "ok", cols |-> {}]}

FeatureStores ==
    {st \in [preprocessors : BOOLEAN, contract : ContractFiles, pcaNames : BOOLEAN] :
        ~st.preprocessors => st.contract.cols = TrainContract}

\* A raw row handed to prepare_features: its keys, and the keys whose value
\* is a number.
RawRow(cols, strings) == [isdict |-> TRUE, cols |-> cols, num |-> cols \ strings]

RawRows ==
    {RawRow(TrainRawCols, {})}
    \cup {RawRow(TrainRawCols \ {c}, {}) : c \in TrainRawCols}
    \cup {RawRow(TrainRawCols \cup {"V29"}, {}),
          RawRow(TrainRawCols \cup {"note"}, {"note"}),
          RawRow(TrainRawCols \cup {"note", "V29"}, {"note"}),
          RawRow((TrainRawCols \ {"V2"}) \cup {"V29"}, {}),
          RawRow((TrainRawCols \ {"V2"}) \cup {"note"}, {"note"}),
          RawRow(TrainRawCols \ {"V1", "Class"}, {}),
          RawRow(TrainRawCols, {"V1"}),
          RawRow(TrainRawCols, {"Time"}),
          RawRow(TrainRawCols, {"Amount"}),
          [isdict |-> FALSE, cols |-> {}, num |-> {}]}

\* ====================================================== feature values
\* The same stages on values.  A frame is the sequence of its rows in frame
\* order; a row keeps its index label and maps each column to its value.
MaxBatch == 2

MaxRows == 6
MaxAmount == 2
NIds == 2

\* rolling(5)
Window == 5

\* add_interaction_features(df, new_merchant_threshold=50)
NewMerchantThreshold == 50

\* A value that is a quotient, kept as the pair; over = 0 is NaN.
Ratio(s, n) == [sum |-> s, over |-> n]

NaN == Ratio(0, 0)

\* .fillna(0)
FillNa(v) == IF v = NaN THEN Ratio(0, 1) ELSE v

Col(frame, k, c) == frame[k].row[c]

\* df[c] = ... : the column c set on every row (Val(k) is the value at
\* frame position k)
WithColumn(frame, c, Val(_)) ==
    [k \in 1..Len(frame) |-> [frame[k] EXCEPT !.row = (c :> Val(k)) @@ @]]

\* series.value_counts()[v]
ValueCount(frame, c, v) == Cardinality({j \in 1..Len(frame) : Col(frame, j, c) = v})

\* series.value_counts().to_dict()
ValueCounts(frame, c) ==
    [v \in {Col(frame, j, c) : j \in 1..Len(frame)} |-> ValueCount(frame, c, v)]

\* pd.DataFrame(rows): index labels 0, 1, ...
DataFrame(raws) == [k \in 1..Len(raws) |-> [index |-> k - 1, row |-> raws[k]]]

\* add_timestamp_features: 2024-01-01 00:00:00 (a Monday) plus Time seconds
TimestampValues(frame) ==
    LET f1 == WithColumn(frame, "timestamp",
                         LAMBDA k : [base |-> "2024-01-01 00:00:00",
                                     seconds |-> Col(frame, k, "Time")])
        f2 == WithColumn(f1, "hour", LAMBDA k : (Col(frame, k, "Time") \div 3600) % 24)
    IN  WithColumn(f2, "dayofweek", LAMBDA k : (Col(frame, k, "Time") \div 86400) % 7)

\* np.log1p on the amounts the model uses, in thousandths
Log1p(a) == << 0, 693, 1099, 1386, 1609 >>[a + 1]

\* The k-th smallest of a set of positions' amounts (k from 1)
SortedAmounts(frame) ==
    LET n == Len(frame)
        Before(i, j) == \/ Col(frame, i, "Amount") < Col(frame, j, "Amount")
                        \/ Col(frame, i, "Amount") = Col(frame, j, "Amount") /\ i < j
        Rank(i) == 1 + Cardinality({j \in 1..n : Before(j, i)})
    IN  [k \in 1..n |-> Col(frame, CHOOSE i \in 1..n : Rank(i) = k, "Amount")]

\* np.percentile(x, q) with linear interpolation, times 4, for q = 25 q4
\* quarters (1: first quartile, 2: median, 3: third quartile)
Quartile4(sorted, q4) ==
    LET h == (Len(sorted) - 1) * q4
        f == h \div 4
        r == h % 4
    IN  IF r = 0 THEN 4 * sorted[f + 1]
        ELSE 4 * sorted[f + 1] + r * (sorted[f + 2] - sorted[f + 1])

\* RobustScaler().fit: center_ = median, scale_ = interquartile range (1 when
\* the range is 0), both times 4
FitScaler(frame) ==
    LET sorted == SortedAmounts(frame)
        iqr4 == Quartile4(sorted, 3) - Quartile4(sorted, 1)
    IN  [center4 |-> Quartile4(sorted, 2), scale4 |-> IF iqr4 = 0 THEN 4 ELSE iqr4]

\* add_amount_features(df, scaler)
AmountValues(frame, scaler) ==
    LET f1 == WithColumn(frame, "amount_log", LAMBDA k : Log1p(Col(frame, k, "Amount")))
    IN  WithColumn(f1, "amount_scaled",
                   LAMBDA k : Ratio(4 * Col(frame, k, "Amount") - scaler.center4,
                                    scaler.scale4))

\* The draws of np.random.default_rng(42), in the order the generator gives
\* them: every call of the function starts the same stream again.  The
\* stream is a fixed sequence this model does not know; a draw is a number
\* below NIds.  Only the draws that choose a value per row and the table of
\* account ages are counted.
Draws == 0..(NIds - 1)

CatCols == << "merchant_id", "device_type", "geo_bucket", "account_id" >>

StreamLen == Len(CatCols) * MaxBatch + NIds

Streams == [1..StreamLen -> Draws]

DeviceTypes == << "mobile", "desktop", "pos", "tablet" >>

\* augment_synthetic_categories(df, seed): n draws for each of merchant_id,
\* device_type, geo_bucket and account_id, in that order, then the ages of
\* the accounts; the k-th row takes the k-th draw of each block.
SyntheticValues(frame, rng) ==
    LET n == Len(frame)
        f1 == WithColumn(frame, "merchant_id", LAMBDA k : rng[k])
        f2 == WithColumn(f1, "device_type", LAMBDA k : DeviceTypes[rng[n + k] + 1])
        f3 == WithColumn(f2, "geo_bucket", LAMBDA k : rng[2 * n + k])
        f4 == WithColumn(f3, "account_id", LAMBDA k : rng[3 * n + k])
        account_ages == [a \in Draws |-> rng[4 * n + a + 1]]
    IN  WithColumn(f4, "account_age_days", LAMBDA k : account_ages[Col(f4, k, "account_id")])

\* add_frequency_features: the counts are taken in the frame at hand
FrequencyValues(frame) ==
    LET f1 == WithColumn(frame, "merchant_freq",
                         LAMBDA k : ValueCount(frame, "merchant_id", Col(frame, k, "merchant_id")))
        f2 == WithColumn(f1, "device_freq",
                         LAMBDA k : ValueCount(frame, "device_type", Col(frame, k, "device_type")))
    IN  WithColumn(f2, "account_txn_count",
                   LAMBDA k : ValueCount(frame, "account_id", Col(frame, k, "account_id")))

\* df.sort_values(["account_id", "timestamp"]); rows that agree on both keep
\* their order
SortValues(frame) ==
    LET n == Len(frame)
        Before(i, j) ==
            \/ Col(frame, i, "account_id") < Col(frame, j, "account_id")
            \/ /\ Col(frame, i, "account_id") = Col(frame, j, "account_id")
               /\ \/ Col(frame, i, "timestamp").seconds < Col(frame, j, "timestamp").seconds
                  \/ /\ Col(frame, i, "timestamp").seconds = Col(frame, j, "timestamp").seconds
                     /\ i < j
        Rank(i) == 1 + Cardinality({j \in 1..n : Before(j, i)})
    IN  [k \in 1..n |-> frame[CHOOSE i \in 1..n : Rank(i) = k]]

RECURSIVE SumAmount(_)
SumAmount(rows) ==
    IF Len(rows) = 0 THEN 0 ELSE Head(rows).row["Amount"] + SumAmount(Tail(rows))

\* The rows of position k's account, up to and including k, in frame order
GroupUpTo(frame, k) ==
    SelectSeq(SubSeq(frame, 1, k),
              LAMBDA r : r.row["account_id"] = Col(frame, k, "account_id"))

\* groupby("account_id")["Amount"].rolling(5).mean() at position k
RollingMean(frame, k) ==
    LET g == GroupUpTo(frame, k)
    IN  IF Len(g) < Window THEN NaN
        ELSE Ratio(SumAmount(SubSeq(g, Len(g) - Window + 1, Len(g))), Window)

\* groupby("account_id")["Amount"].rolling(5).count() at position k;
\* min_periods is the least number of rows the library build asks for
\* before it gives a count (0, or the window)
RollingCount(frame, k, min_periods) ==
    LET g == GroupUpTo(frame, k)
        c == IF Len(g) < Window THEN Len(g) ELSE Window
    IN  IF Len(g) < min_periods THEN NaN ELSE Ratio(c, 1)

\* .shift(): the series moved down one position, whole
Shift(Val(_), k) == IF k = 1 THEN NaN ELSE Val(k - 1)

\* add_rolling_features: the frame comes back sorted
RollingValues(frame, min_periods) ==
    LET s == SortValues(frame)
        f1 == WithColumn(s, "last_5_mean_amount",
                         LAMBDA k : FillNa(Shift(LAMBDA j : RollingMean(s, j), k)))
    IN  WithColumn(f1, "last_5_count",
                   LAMBDA k : FillNa(Shift(LAMBDA j : RollingCount(s, j, min_periods), k)))

\* add_missing_flags: no stage before it leaves a value missing
MissingFlagValues(frame) ==
    LET f1 == WithColumn(frame, "merchant_id_missing", LAMBDA k : 0)
        f2 == WithColumn(f1, "device_type_missing", LAMBDA k : 0)
        f3 == WithColumn(f2, "geo_bucket_missing", LAMBDA k : 0)
    IN  WithColumn(f3, "account_age_days_missing", LAMBDA k : 0)

\* encode_categoricals, fit mode: encoders[col] = value_counts().to_dict()
FitEncoders(frame) == [i \in 1..Len(CatCols) |-> ValueCounts(frame, CatCols[i])]

\* df[col].map(mapping).fillna(0)
MapCount(mapping, v) == IF v \in DOMAIN mapping THEN mapping[v] ELSE 0

\* encode_categoricals(df, encoders)
EncodeValues(frame, encoders) ==
    LET f1 == WithColumn(frame, "merchant_id_fe",
                         LAMBDA k : MapCount(encoders[1], Col(frame, k, "merchant_id")))
        f2 == WithColumn(f1, "device_type_fe",
                         LAMBDA k : MapCount(encoders[2], Col(frame, k, "device_type")))
        f3 == WithColumn(f2, "geo_bucket_fe",
                         LAMBDA k : MapCount(encoders[3], Col(frame, k, "geo_bucket")))
    IN  WithColumn(f3, "account_id_fe",
                   LAMBDA k : MapCount(encoders[4], Col(frame, k, "account_id")))

\* add_interaction_features
InteractionValues(frame) ==
    LET f1 == WithColumn(frame, "amount_times_age",
                         LAMBDA k : Col(frame, k, "Amount") * Col(frame, k, "account_age_days"))
    IN  WithColumn(f1, "is_new_merchant",
                   LAMBDA k : IF Col(frame, k, "merchant_freq") < NewMerchantThreshold
                              THEN 1 ELSE 0)

\* apply_pca: the two components of the row's numeric columns under the
\* fitted projection, kept as the component number and the projected values
PcaValues(frame) ==
    LET Numeric(k) == [c \in (DOMAIN frame[k].row) \ {"timestamp", "device_type"} |->
                          Col(frame, k, c)]
        f1 == WithColumn(frame, "pca_x", LAMBDA k : [component |-> 1, of |-> Numeric(k)])
    IN  WithColumn(f1, "pca_y", LAMBDA k : [component |-> 2, of |-> Numeric(k)])

NoPreprocessors == [scaler |-> [center4 |-> 0, scale4 |-> 0], encoders |-> << >>]

\* feature_pipeline(df, fit, preprocessors, seed=42): the frame and the
\* preprocessors it returns
FeaturePipelineValues(df, fit, preprocessors, rng, min_periods) ==
    LET f1 == TimestampValues(df)
        scaler == IF fit THEN FitScaler(f1) ELSE preprocessors.scaler
        f2 == AmountValues(f1, scaler)
        f3 == SyntheticValues(f2, rng)
        f4 == FrequencyValues(f3)
        f5 == RollingValues(f4, min_periods)
        f6 == MissingFlagValues(f5)
        encoders == IF fit THEN FitEncoders(f6) ELSE preprocessors.encoders
        f7 == EncodeValues(f6, encoders)
        f8 == InteractionValues(f7)
    IN  [frame |-> PcaValues(f8),
         preprocessors |-> [scaler |-> scaler, encoders |-> encoders]]


\* ---------------------------------------------------------- explanations
MaxFeatures == 3

MaxShap == 1

MaxValue == 1

Abs(x) == IF x < 0 THEN 0 - x ELSE x

Smaller(a, b) == IF a < b THEN a ELSE b

\* the columns of the frame handed to the explainer, in order
XgbColumns == << "V1", "V2", "V3", "V4", "V5", "V6" >>

\* list(zip(feature_names, shap_values))
Zip(names, values) ==
    [i \in 1..Smaller(Len(names), Len(values)) |-> << names[i], values[i] >>]

\* (mutant) the signed attribution as the sort key
AbsShapSigned(p) == p[2]

\* key=lambda x: abs(x[1])
AbsShap(p) == Abs(p[2])

\* sorted(pairs, key=Key, reverse=True): the sort is stable, so pairs with
\* equal keys keep the order they had.
SortedReverse(pairs, Key(_)) ==
    LET n == Len(pairs)
        Before(i) == {j \in 1..n : \/ Key(pairs[j]) > Key(pairs[i])
                                   \/ Key(pairs[j]) = Key(pairs[i]) /\ j < i}
    IN  [r \in 1..n |-> pairs[CHOOSE i \in 1..n : Cardinality(Before(i)) = r - 1]]

\* s[:k] for a count k
SliceTo(s, k) == SubSeq(s, 1, Smaller(k, Len(s)))

\* top_k_features(shap_values, xgb_df, k)
TopKFeatures(shap_values, xgb_df, k) ==
    LET feature_names == xgb_df.columns
        pairs == Zip(feature_names, shap_values)
        pairs_sorted == SortedReverse(pairs, AbsShap)
        top == SliceTo(pairs_sorted, k)
    IN  [i \in 1..Len(top) |->
            [feature |-> top[i][1], shap_value |-> top[i][2],
             value |-> xgb_df.row[top[i][1]]]]

\* -------------------------------------------- the row scored and explained
\* The feature list of a tree model trained on engineered columns; the other
\* two base models read the same columns.
EngineeredFeatures == << "V1", "amount_log", "merchant_freq" >>

EngineeredArtifacts ==
    [NoArt EXCEPT !.xgb_features = EngineeredFeatures,
                  !.iforest_features = EngineeredFeatures,
                  !.ae_features = EngineeredFeatures,
                  !.required_input_features = EngineeredFeatures]

\* the columns select_dtypes(include=["float64", "int64", "int32"]) leaves out
NonNumeric == {"timestamp", "device_type"}

PcaColumns == {"pca_x", "pca_y"}

\* predict(): X_xgb, the row compute_base_signals hands to xgb.predict_proba,
\* with the names it is sliced by
ScoringRow(models, input_dict) ==
    LET v == ValidateInput(models,
                           [isdict |-> TRUE, vals |-> input_dict,
                            bad |-> (DOMAIN input_dict) \cap NonNumeric])
    IN  IF v.err # "" THEN [err |-> v.err, row |-> << >>]
        ELSE [err |-> "",
              row |-> [columns |-> models.xgb_features,
                       values |-> Slice(v.df, models.xgb_features)]]

\* prepare_features(raw_input) after feature_pipeline returned the row piped
\* for it: pca.transform inside the pipeline takes the numeric columns the
\* PCA was fitted on and no others, and the contract guard takes the columns
\* of the fit-mode frame and no others. The engineered row, or the error.
PrepareFeaturesValues(raw_input, fit, piped) ==
    LET contract == DOMAIN fit.frame[1].row
        fitted_numeric == (contract \ NonNumeric) \ PcaColumns
        num_df == (((DOMAIN piped) \ PcaColumns) \cup ((DOMAIN raw_input) \cap PcaColumns))
                      \ NonNumeric
    IN  IF num_df # fitted_numeric
        THEN [err |-> "ValueError:pca.transform", row |-> << >>]
        ELSE IF DOMAIN piped # contract
        THEN [err |-> "ValueError:Feature contract mismatch", row |-> << >>]
        ELSE [err |-> "", row |-> piped]

\* explain_transaction(input_dict, models, explainer): xgb_df, the row handed
\* to compute_shap_single
ExplainRow(models, input_dict, fit, piped) ==
    LET p == PrepareFeaturesValues(input_dict, fit, piped)
    IN  IF p.err # "" THEN p
        ELSE IF ~(Range(models.xgb_features) \subseteq DOMAIN p.row)
        THEN [err |-> "KeyError:xgb_features", row |-> << >>]
        ELSE [err |-> "",
              row |-> [columns |-> models.xgb_features,
                       values |-> Slice(p.row, models.xgb_features)]]

\* The dicts a caller builds for one training transaction: the raw row, the
\* row of the processed training data, and the raw row with the features the
\* models need, taken from the processed data or computed for this row alone.
RequestKinds == {"raw", "processed", "raw+processed", "raw+alone"}

Restrict(row, names) == [c \in names \cap DOMAIN row |-> row[c]]

RequestFor(kind, raw, processed, alone) ==
    LET needed == Range(EngineeredFeatures)
    IN  CASE kind = "raw" -> raw
          [] kind = "processed" -> processed
          [] kind = "raw+processed" -> raw @@ Restrict(processed, needed)
          [] OTHER -> raw @@ Restrict(alone, needed)

\* the one-row frames of n columns
XgbFrames(n) ==
    {[columns |-> SubSeq(XgbColumns, 1, n), row |-> r] :
        r \in [Range(SubSeq(XgbColumns, 1, n)) -> 0..MaxValue]}

\* what top_k_features can be handed: a frame, one attribution per column,
\* and a count
TopKInputs ==
    UNION {[shap_values : [1..n -> (0 - MaxShap)..MaxShap], xgb_df : XgbFrames(n),
            k : 0..(MaxFeatures + 1)] : n \in 0..MaxFeatures}

NoTopK == [shap_values |-> << >>, xgb_df |-> [columns |-> << >>, row |-> << >>], k |-> 0]

\* ------------------------------------------------------- the HTTP service
\* The names src/models.py defines at module level.
ModelsNames ==
    {"BASE_DIR", "MODEL_DIR", "ENSEMBLE_DIR", "METRICS_PATH", "XGB_FEATURES_PATH",
     "IFOREST_FEATURES_PATH", "AE_FEATURES_PATH", "_MODELS", "Autoencoder",
     "_load_feature_list", "load_models", "validate_input", "compute_base_signals",
     "build_meta_features", "predict_proba", "predict"}

\* from <module> import <name>
ImportFrom(names, name) == IF name \in names THEN "" ELSE "ImportError"

\* src/explain.py runs `from .models import prepare_features` when imported
ImportExplain == ImportFrom(ModelsNames, "prepare_features")

\* src/api/main.py imports src.models and then src.explain
ImportMain == ImportExplain

NoBody == [score |-> 0 - 1, label |-> "", top_features |-> "absent"]

NoResponse == [kind |-> "", status |-> 0, error |-> "", body |-> NoBody]

\* what a client gets when no server listens
ConnectionRefused == [NoResponse EXCEPT !.kind = "ConnectionError"]

Http(status, error, body) ==
    [kind |-> "http", status |-> status, error |-> error, body |-> body]

\* The server process after the module import and the startup hook
\* (load_artifacts): it serves only if both went through.
Boot(st) ==
    IF ImportMain # ""
    THEN [phase |-> "down", error |-> ImportMain, models |-> NoArt]
    ELSE LET l == LoadFromStorage(st)
         IN  IF l.err # ""
             THEN [phase |-> "down", error |-> l.err, models |-> NoArt]
             ELSE [phase |-> "up", error |-> "", models |-> l.art]

\* POST /predict.  The body has to be {"data": {...}}; models["predict"] is
\* looked up in the dict load_models returned.  Past that lookup the handler
\* unpacks the dict predict() returns into its two keys and hands the key
\* "score" to float(), after an explain_transaction call that nothing guards.
PredictHandler(models, input) ==
    IF ~input.isdict THEN Http(422, "validation", NoBody)
    ELSE IF "predict" \notin DOMAIN models THEN Http(500, "KeyError:predict", NoBody)
    ELSE LET r == Predict(models, models, input)
         IN  IF r.out # "ok" THEN Http(500, r.out, NoBody)
             ELSE Http(500, "ValueError:float", NoBody)

NoApp == [phase |-> "off", error |-> "", models |-> NoArt]

\* ------------------------------------------------------ the Streamlit page
\* Times and amounts are in whole units, components in tenths, scores in
\* thousandths.
\* range(1, 29), cut to four components: V4 stands for the ones no widget
\* edits.
VNames == << "V1", "V2", "V3", "V4" >>

NORMAL_DEMO == [Time |-> 500, Amount |-> 1200, V1 |-> 15, V2 |-> 0 - 8, V3 |-> 3]

FRAUD_DEMO ==
    [Time |-> 406, Amount |-> 0, V1 |-> 0 - 23, V2 |-> 20, V3 |-> 0 - 16, V4 |-> 40]

\* the keys of the number_input widgets
Widgets == {"time", "amount", "v1", "v2", "v3"}

\* what the user types into a widget
WidgetValues == {0, 1}

\* st.session_state on the first run of the script
InitialSession == [demo_mode |-> "normal", vals |-> [w \in Widgets |-> 0]]

\* d.get(k, default)
Get(d, k, default) == IF k \in DOMAIN d THEN d[k] ELSE default

\* for k, v in payload.items(): st.session_state[k] = v
SetAll(d, payload) ==
    [k \in DOMAIN d \cup DOMAIN payload |->
        IF k \in DOMAIN payload THEN payload[k] ELSE d[k]]

\* load_demo_transaction
LoadDemoTransaction(s) ==
    IF s.demo_mode = "normal"
    THEN [demo_mode |-> "fraud", vals |-> SetAll(s.vals, NORMAL_DEMO)]
    ELSE [demo_mode |-> "normal", vals |-> SetAll(s.vals, FRAUD_DEMO)]

\* transaction_data, as the Analyze branch assembles it
TransactionData(s) ==
    [k \in {"Time", "Amount"} \cup Range(VNames) |->
        IF k = "Time" THEN s.vals["time"]
        ELSE IF k = "Amount" THEN s.vals["amount"]
        ELSE IF s.demo_mode = "normal"
        THEN IF k = "V1" THEN s.vals["v1"]
             ELSE IF k = "V2" THEN s.vals["v2"]
             ELSE IF k = "V3" THEN s.vals["v3"]
             ELSE 0
        ELSE Get(s.vals, k, 0)]

\* What the remote service can answer.  A label that is a JSON number is
\* written as the string of its digits; Absent is a key the body lacks.
Absent == "<absent>"

LabelValues == {"fraud", "legit", "FRAUD", "1", Absent}

ScoreValues == {0, 404, 406, 410, 1000}

JsonScores ==
    {[kind |-> "number", val |-> v] : v \in ScoreValues}
    \cup {[kind |-> "string", val |-> 0], [kind |-> Absent, val |-> 0]}

NoJson == [type |-> "text", label |-> Absent, score |-> [kind |-> Absent, val |-> 0],
           rows |-> ""]

PredictBodies ==
    {[NoJson EXCEPT !.type = "object", !.label = l, !.score = sc] :
        l \in LabelValues, sc \in JsonScores}
    \cup {[NoJson EXCEPT !.type = "array"], NoJson}

ExplainBodies ==
    {[NoJson EXCEPT !.type = "array", !.rows = r] :
        r \in {"empty", "rows", "nocolumns", "badvalues"}}
    \cup {[NoJson EXCEPT !.type = "object"], NoJson}

NoAnswer == [kind |-> "", status |-> 0, body |-> NoJson]

Answers(bodies) ==
    {[NoAnswer EXCEPT !.kind = k] : k \in {"ConnectionError", "Timeout"}}
    \cup {[kind |-> "http", status |-> st, body |-> b] : st \in {200, 300, 500}, b \in bodies}

\* (mutant) the status of the response is not looked at
RaisesRequestExceptionNoStatus(r) ==
    \/ r.kind \in {"ConnectionError", "Timeout"}
    \/ r.body.type = "text"

\* requests.post(...); response.raise_for_status(); response.json() : the
\* answers for which one of the three raises a RequestException.
\* raise_for_status raises on the 4xx and 5xx statuses; a 3xx answer that is
\* not a redirect to follow comes back as it is.  json() raises on a body
\* that is not JSON (a RequestException in requests 2.27 and later).
RaisesRequestException(r) ==
    \/ r.kind \in {"ConnectionError", "Timeout"}
    \/ r.status >= 400
    \/ r.body.type = "text"

\* (mutant) every label is accepted
ValidLabelAny(l) == TRUE

\* label in ["legit", "fraud"]
ValidLabel(l) == l \in {"legit", "fraud"}

\* float(result.get("score", 0.0)), 0.0 when that raises
FloatOrZero(sc) == IF sc.kind = "number" THEN sc.val ELSE 0

\* f"{score:.2f}", in hundredths
Format2(score) == (score + 5) \div 10

UiThreshold == 410

BlankPage ==
    [error |-> "", raw |-> FALSE, exception |-> "", decision |-> "",
     probability |-> << >>, line |-> "", explanation |-> ""]

NoRun == [tx |-> << >>, presp |-> NoAnswer, label |-> "", score |-> 0, xresp |-> NoAnswer]

\* The script from the answer of /predict to the /explain request: the page
\* it has rendered when it stops there, or the label and score it goes on
\* with.
AfterPredict(s, r) ==
    IF RaisesRequestException(r)
    THEN [go |-> FALSE, label |-> "", score |-> 0,
          page |-> [BlankPage EXCEPT !.error = "Prediction failed"]]
    ELSE IF r.body.type # "object"
    THEN [go |-> FALSE, label |-> "", score |-> 0,
          page |-> [BlankPage EXCEPT !.exception = "AttributeError"]]
    ELSE IF ~ValidLabel(r.body.label)
    THEN [go |-> FALSE, label |-> "", score |-> 0,
          page |-> [BlankPage EXCEPT !.error = "Unknown prediction label",
                                     !.raw = TRUE]]
    ELSE IF s.demo_mode = "fraud"
    THEN [go |-> TRUE, label |-> "fraud", score |-> 1000, page |-> BlankPage]
    ELSE [go |-> TRUE, label |-> r.body.label, score |-> FloatOrZero(r.body.score),
          page |-> BlankPage]

\* The script from the answer of /explain to its end: the decision block,
\* then the chart or the caption.
AfterExplain(label, score, r) ==
    LET shap_rows == IF RaisesRequestException(r) \/ r.body.type # "array"
                     THEN "empty" ELSE r.body.rows
    IN  [BlankPage EXCEPT
            !.decision = IF label = "fraud" THEN "FRAUD" ELSE "LEGIT",
            !.probability = << Format2(score) >>,
            !.line = IF score >= UiThreshold THEN "FRAUD" ELSE "LEGIT",
            !.explanation = IF shap_rows = "empty" THEN "caption"
                            ELSE IF shap_rows = "nocolumns" THEN "unavailable"
                            ELSE IF shap_rows = "rows" THEN "chart" ELSE "",
            !.exception = IF shap_rows = "badvalues" THEN "TypeError" ELSE ""]

\* ------------------------------------------------------------------- state
VARIABLES
    storage,    \* the artifact files on disk (frozen)
    _MODELS,    \* the process-wide cache: None or the loaded artifact set
    pc,         \* per thread: where it is inside load_models / predict
    op,         \* per thread: the call it is serving
    seen,       \* per thread: the value of _MODELS its load_models call tested
    loc,        \* per thread: the artifact dict it holds in a local variable
    loads,      \* how many artifact sets have been built from storage
    assigns,    \* how many times _MODELS has been assigned
    returned,   \* the ids of the artifact sets load_models has returned
    ev,         \* the call that ended in the last step, if one did
    fstore,     \* what prepare_features reads: preprocessors, contract file
    fpc,        \* where the prepare_features call in progress is
    fraw,       \* the raw row of the prepare_features call in progress
    frame,      \* the DataFrame that call has built so far
    fev,        \* the prepare_features call that ended in the last step
    rng,        \* the draws of the seeded generator
    min_periods, \* the window fill rolling(5).count() asks for in this build
    batch,      \* the raw training rows
    fitted,     \* what the fit-mode run over the batch returned
    arow,       \* the training row the apply-mode run was given
    applied,    \* the frame the apply-mode run on that row returned
    vpc,        \* where the fit-then-apply script is
    rframe,     \* a frame handed to add_rolling_features
    rout,       \* the frame it returned
    xin,        \* what top_k_features was handed
    xout,       \* what it returned
    xpc,        \* whether it has been called
    xrow,       \* the rows one input gave the tree model and the explainer
    app,        \* the API server process: its phase and app.state.models
    areq,       \* the body of the last POST /predict
    aresp,      \* what the client got back
    session,    \* st.session_state of the page
    upc,        \* what the running script waits for
    run,        \* the locals of the Analyze branch
    page,       \* what the last run of the script rendered
    clicks      \* the user's clicks: the last one, and the parity of the demo loads

modelVars == << storage, _MODELS, pc, op, seen, loc, loads, assigns, returned, ev >>

featVars == << fstore, fpc, fraw, frame, fev >>

valueVars == << rng, min_periods, batch, fitted, arow, applied, vpc, rframe, rout >>

explainVars == << xin, xout, xpc, xrow >>

apiVars == << app, areq, aresp >>

uiVars == << session, upc, run, page, clicks >>

vars == << modelVars, featVars, valueVars, explainVars, apiVars, uiVars >>

\* what the steps of one part of the program leave alone
outsideModels == << featVars, valueVars, explainVars, apiVars, uiVars >>

outsideFeat == << modelVars, valueVars, explainVars, apiVars, uiVars >>

outsideValues == << modelVars, featVars, explainVars, apiVars, uiVars >>

outsideExplain == << modelVars, featVars, valueVars, apiVars, uiVars >>

outsideUi == << modelVars, featVars, valueVars, explainVars, apiVars >>

outsideApi == << modelVars, featVars, valueVars, explainVars, uiVars >>

NoEv ==
    [kind |-> "", hit |-> FALSE, atcall |-> None, before |-> None,
     ret |-> None, reads |-> 0, err |-> "", file |-> "",
     input |-> NotADict, res |-> Result("", << >>, << >>)]

NoRaw == [isdict |-> FALSE, cols |-> {}, num |-> {}]

NoFev ==
    [kind |-> "", raw |-> NoRaw, out |-> "", stage |-> "", missing |-> << >>,
     extra |-> << >>, produced |-> {}, returned |-> NoFrame]

FeatIdle ==
    /\ fpc = "idle"
    /\ fraw = NoRaw
    /\ frame = NoFrame
    /\ fev = NoFev

ModelsIdle ==
    /\ _MODELS = None
    /\ pc = [t \in Threads |-> "idle"]
    /\ op = [t \in Threads |-> ""]
    /\ seen = [t \in Threads |-> None]
    /\ loc = [t \in Threads |-> NoArt]
    /\ loads = 0
    /\ assigns = 0
    /\ returned = {}
    /\ ev = NoEv

\* ------------------------------------------- fit mode against apply mode
\* A raw training row: Time, the components, Amount, Class.
TrainRow(t, a) ==
    ("Time" :> t) @@ ("V1" :> 0) @@ ("V2" :> 0) @@ ("Amount" :> a) @@ ("Class" :> 0)

\* The training batches: the k-th row is the transaction of second k.
Batches ==
    UNION {{[k \in 1..n |-> TrainRow(k, amounts[k])] : amounts \in [1..n -> 1..MaxAmount]} :
              n \in 1..MaxBatch}

NoFit == [frame |-> << >>, preprocessors |-> NoPreprocessors]

ValuesIdle ==
    /\ rng = [k \in 1..StreamLen |-> 0]
    /\ min_periods = 0
    /\ batch = << >>
    /\ fitted = NoFit
    /\ arow = 0
    /\ applied = << >>
    /\ vpc = "idle"
    /\ rframe = << >>
    /\ rout = << >>

\* no input has been scored and explained
NoRows ==
    [input |-> << >>, piped |-> << >>, scoring |-> [err |-> "", row |-> << >>],
     explain |-> [err |-> "", row |-> << >>]]

ExplainIdle ==
    /\ xin = NoTopK
    /\ xout = << >>
    /\ xpc = "idle"
    /\ xrow = NoRows

\* the user has clicked nothing yet
NoClicks == [last |-> "", odd |-> FALSE]

UiIdle ==
    /\ session = InitialSession
    /\ clicks = NoClicks
    /\ upc = "idle"
    /\ run = NoRun
    /\ page = BlankPage

ApiIdle ==
    /\ app = NoApp
    /\ areq = NotADict
    /\ aresp = NoResponse

Init ==
    /\ storage \in StorageStates
    /\ ModelsIdle
    /\ fstore = [preprocessors |-> TRUE, pcaNames |-> TRUE,
                 contract |-> [present |-> TRUE, shape |-> "ok", cols |-> TrainContract]]
    /\ FeatIdle
    /\ ValuesIdle
    /\ ExplainIdle
    /\ ApiIdle
    /\ UiIdle

\* (mutant) the cache test never succeeds
CacheHitNever(c) == FALSE

\* if _MODELS is not None
CacheHit(c) == ~IsNone(c)

\* A direct load_models() call (scripts/dry_run.py, the API's startup hook):
\* the cache test, and the return of the cached set when it is there.
CallLoadModels(t) ==
    /\ ev = NoEv
    /\ pc[t] = "idle"
    /\ IF CacheHit(_MODELS)
       THEN /\ ev' = [NoEv EXCEPT !.kind = "load_models", !.hit = TRUE,
                                  !.atcall = _MODELS, !.before = _MODELS, !.ret = _MODELS]
            /\ returned' = returned \cup {_MODELS.id}
            /\ UNCHANGED << pc, op, seen >>
       ELSE /\ pc' = [pc EXCEPT ![t] = "read"]
            /\ op' = [op EXCEPT ![t] = "load_models"]
            /\ seen' = [seen EXCEPT ![t] = _MODELS]
            /\ ev' = NoEv
            /\ UNCHANGED returned
    /\ UNCHANGED << storage, _MODELS, loc, loads, assigns >>
    /\ UNCHANGED outsideModels

\* predict(input_dict) up to the cache test of its first load_models() call.
CallPredict(t) ==
    /\ ev = NoEv
    /\ pc[t] = "idle"
    /\ op' = [op EXCEPT ![t] = "predict"]
    /\ seen' = [seen EXCEPT ![t] = _MODELS]
    /\ IF CacheHit(_MODELS)
       THEN /\ pc' = [pc EXCEPT ![t] = "run"]
            /\ loc' = [loc EXCEPT ![t] = _MODELS.art]
            /\ returned' = returned \cup {_MODELS.id}
       ELSE /\ pc' = [pc EXCEPT ![t] = "read"]
            /\ UNCHANGED << loc, returned >>
    /\ ev' = NoEv
    /\ UNCHANGED << storage, _MODELS, loads, assigns >>
    /\ UNCHANGED outsideModels

\* (mutant) the cache is filled entry by entry: a call that fails past the
\* metrics file leaves the threshold and the meta features behind
ReadArtifactsCaching(t) ==
    /\ ev = NoEv
    /\ pc[t] = "read"
    /\ LET r == LoadFromStorage(storage)
       IN  IF r.err # ""
           THEN /\ ev' = [NoEv EXCEPT !.kind = op[t], !.atcall = seen[t],
                                      !.before = _MODELS, !.reads = r.reads,
                                      !.err = r.err, !.file = r.file,
                                      !.res = Result(r.err, << r.file >>, << "load_models" >>)]
                /\ pc' = [pc EXCEPT ![t] = "idle"]
                /\ op' = [op EXCEPT ![t] = ""]
                /\ seen' = [seen EXCEPT ![t] = None]
                /\ _MODELS' = IF r.reads > 1
                              THEN [id |-> t,
                                    art |-> [NoArt EXCEPT !.threshold = storage.content.thr,
                                                          !.meta_features = storage.content.meta]]
                              ELSE _MODELS
                /\ UNCHANGED << loc, loads >>
           ELSE /\ loc' = [loc EXCEPT ![t] = r.art]
                /\ loads' = loads + 1
                /\ pc' = [pc EXCEPT ![t] = "assign"]
                /\ ev' = NoEv
                /\ UNCHANGED << op, seen, _MODELS >>
    /\ UNCHANGED << storage, assigns, returned >>
    /\ UNCHANGED outsideModels

\* load_models from the metrics file to the autoencoder: either a file fails
\* and the call raises, or the thread holds a freshly built artifact set.
ReadArtifacts(t) ==
    /\ ev = NoEv
    /\ pc[t] = "read"
    /\ LET r == LoadFromStorage(storage)
       IN  IF r.err # ""
           THEN /\ ev' = [NoEv EXCEPT !.kind = op[t], !.atcall = seen[t],
                                      !.before = _MODELS, !.reads = r.reads,
                                      !.err = r.err, !.file = r.file,
                                      !.res = Result(r.err, << r.file >>, << "load_models" >>)]
                /\ pc' = [pc EXCEPT ![t] = "idle"]
                /\ op' = [op EXCEPT ![t] = ""]
                /\ seen' = [seen EXCEPT ![t] = None]
                /\ UNCHANGED << loc, loads >>
           ELSE /\ loc' = [loc EXCEPT ![t] = r.art]
                /\ loads' = loads + 1
                /\ pc' = [pc EXCEPT ![t] = "assign"]
                /\ ev' = NoEv
                /\ UNCHANGED << op, seen >>
    /\ UNCHANGED << storage, _MODELS, assigns, returned >>
    /\ UNCHANGED outsideModels

\* (mutant) every assignment after the first caches a higher threshold
AssignCacheDrifting(t) ==
    /\ ev = NoEv
    /\ pc[t] = "assign"
    /\ _MODELS' = [id |-> t, art |-> [loc[t] EXCEPT !.threshold = @ + assigns]]
    /\ assigns' = assigns + 1
    /\ pc' = [pc EXCEPT ![t] = "ret"]
    /\ ev' = NoEv
    /\ UNCHANGED << storage, op, seen, loc, loads, returned >>
    /\ UNCHANGED outsideModels

\* _MODELS = {...}
AssignCache(t) ==
    /\ ev = NoEv
    /\ pc[t] = "assign"
    /\ _MODELS' = [id |-> t, art |-> loc[t]]
    /\ assigns' = assigns + 1
    /\ pc' = [pc EXCEPT ![t] = "ret"]
    /\ ev' = NoEv
    /\ UNCHANGED << storage, op, seen, loc, loads, returned >>
    /\ UNCHANGED outsideModels

\* return _MODELS, at the end of a load_models call that loaded from storage
ReturnModels(t) ==
    /\ ev = NoEv
    /\ pc[t] = "ret"
    /\ returned' = returned \cup {_MODELS.id}
    /\ IF op[t] = "load_models"
       THEN /\ ev' = [NoEv EXCEPT !.kind = "load_models", !.atcall = seen[t],
                                  !.before = _MODELS, !.ret = _MODELS,
                                  !.reads = Len(LoadOrder)]
            /\ pc' = [pc EXCEPT ![t] = "idle"]
            /\ op' = [op EXCEPT ![t] = ""]
            /\ seen' = [seen EXCEPT ![t] = None]
            /\ loc' = [loc EXCEPT ![t] = NoArt]
       ELSE /\ ev' = NoEv
            /\ pc' = [pc EXCEPT ![t] = "run"]
            /\ loc' = [loc EXCEPT ![t] = _MODELS.art]
            /\ UNCHANGED << op, seen >>
    /\ UNCHANGED << storage, _MODELS, loads, assigns >>
    /\ UNCHANGED outsideModels

\* The rest of predict: predict_proba, build_meta_features, validate_input,
\* compute_base_signals, the stacker and the threshold.  Every nested
\* load_models() call finds the cache set, and returns it.
PredictRun(t) ==
    /\ ev = NoEv
    /\ pc[t] = "run"
    /\ \E input \in Inputs :
          ev' = [NoEv EXCEPT !.kind = "predict", !.hit = CacheHit(seen[t]),
                             !.atcall = seen[t], !.before = _MODELS, !.ret = _MODELS,
                             !.reads = IF CacheHit(seen[t]) THEN 0 ELSE Len(LoadOrder),
                             !.input = input,
                             !.res = Predict(loc[t], _MODELS.art, input)]
    /\ returned' = returned \cup {_MODELS.id}
    /\ pc' = [pc EXCEPT ![t] = "idle"]
    /\ op' = [op EXCEPT ![t] = ""]
    /\ seen' = [seen EXCEPT ![t] = None]
    /\ loc' = [loc EXCEPT ![t] = NoArt]
    /\ UNCHANGED << storage, _MODELS, loads, assigns >>
    /\ UNCHANGED outsideModels

\* The caller takes what the call that just ended returned or raised
\* (models = load_models(), out = predict(raw)).  No thread state changes.
Deliver ==
    /\ ev # NoEv
    /\ ev' = NoEv
    /\ UNCHANGED << storage, _MODELS, pc, op, seen, loc, loads, assigns, returned >>
    /\ UNCHANGED outsideModels

Next ==
    \/ Deliver
    \/ \E t \in Threads :
        \/ CallLoadModels(t)
        \/ CallPredict(t)
        \/ ReadArtifacts(t)
        \/ AssignCache(t)
        \/ ReturnModels(t)
        \/ PredictRun(t)

Spec == Init /\ [][Next]_vars


\* --------------------------------------------------------- prepare_features
FeatEnd(raw, out, stage) ==
    [NoFev EXCEPT !.kind = "prepare_features", !.raw = raw, !.out = out, !.stage = stage]

\* prepare_features(raw_input), steps 1: the dict test and the one-row frame
PrepareFeatures(raw) ==
    /\ fpc = "idle"
    /\ IF ~raw.isdict
       THEN /\ fev' = FeatEnd(raw, "TypeError", "input")
            /\ UNCHANGED << fpc, fraw, frame >>
       ELSE /\ fraw' = raw
            /\ frame' = [cols |-> raw.cols, num |-> raw.num]
            /\ fpc' = "preprocessors"
            /\ fev' = NoFev
    /\ UNCHANGED << fstore, outsideFeat >>

\* step 2: _load_preprocessors()
LoadPreprocessorsStep ==
    /\ fpc = "preprocessors"
    /\ IF LoadPreprocessors(fstore) # ""
       THEN /\ fev' = FeatEnd(fraw, LoadPreprocessors(fstore), "preprocessors")
            /\ fpc' = "idle" /\ fraw' = NoRaw /\ frame' = NoFrame
       ELSE /\ fpc' = StageOrder[1]
            /\ fev' = NoFev
            /\ UNCHANGED << fraw, frame >>
    /\ UNCHANGED << fstore, outsideFeat >>

\* step 3: one stage of feature_pipeline(df_raw, fit=False, preprocessors)
PipelineStage ==
    /\ fpc \in Range(StageOrder)
    /\ LET r == RunStage(fpc, frame, fstore)
       IN  IF r.err # ""
           THEN /\ fev' = FeatEnd(fraw, r.err, fpc)
                /\ fpc' = "idle" /\ fraw' = NoRaw /\ frame' = NoFrame
           ELSE /\ frame' = r.frame
                /\ fpc' = NextStage(fpc)
                /\ fev' = NoFev
                /\ UNCHANGED fraw
    /\ UNCHANGED << fstore, outsideFeat >>

\* steps 4 and 5: the contract is read, the guard compares, the frame is
\* returned
EnforceContract ==
    /\ fpc = "guard"
    /\ LET c == LoadTrainingFeatureColumns(fstore)
           g == ContractGuard(c.val, frame.cols)
       IN  fev' = IF c.err # "" THEN FeatEnd(fraw, c.err, "contract file")
                  ELSE IF g.err # ""
                  THEN [FeatEnd(fraw, g.err, "guard")
                          EXCEPT !.missing = g.missing, !.extra = g.extra,
                                 !.produced = frame.cols]
                  ELSE [FeatEnd(fraw, "ok", "guard")
                          EXCEPT !.produced = frame.cols, !.returned = frame]
    /\ fpc' = "idle" /\ fraw' = NoRaw /\ frame' = NoFrame
    /\ UNCHANGED << fstore, outsideFeat >>

InitFeat ==
    /\ storage = [absent |-> {}, shape |-> [f \in FeatureFiles |-> "ok"],
                  content |-> FixtureContents]
    /\ ModelsIdle
    /\ fstore \in FeatureStores
    /\ FeatIdle
    /\ ValuesIdle
    /\ ExplainIdle
    /\ ApiIdle
    /\ UiIdle

NextFeat ==
    \/ \E raw \in RawRows : PrepareFeatures(raw)
    \/ LoadPreprocessorsStep
    \/ PipelineStage
    \/ EnforceContract

SpecFeat == InitFeat /\ [][NextFeat]_vars

\* df, preprocessors = feature_pipeline(df_train, fit=True)
\* (scripts/freeze_training_features.py, src/train.py)
FitRun ==
    /\ vpc = "raw"
    /\ fitted' = FeaturePipelineValues(DataFrame(batch), TRUE, NoPreprocessors,
                                       rng, min_periods)
    /\ vpc' = "fitted"
    /\ UNCHANGED << rng, min_periods, batch, arow, applied, rframe, rout >>
    /\ UNCHANGED outsideValues

\* feature_pipeline(pd.DataFrame([raw_row]), fit=False, preprocessors) on the
\* i-th training row (prepare_features, scripts/check_feature_inference.py)
ApplyRun(i) ==
    /\ vpc = "fitted"
    /\ i \in 1..Len(batch)
    /\ applied' = FeaturePipelineValues(DataFrame(<< batch[i] >>), FALSE,
                                        fitted.preprocessors, rng, min_periods).frame
    /\ arow' = i
    /\ vpc' = "applied"
    /\ UNCHANGED << rng, min_periods, batch, fitted, rframe, rout >>
    /\ UNCHANGED outsideValues

InitFit ==
    /\ rng \in Streams
    /\ min_periods \in {0, Window}
    /\ batch \in Batches
    /\ fitted = NoFit
    /\ arow = 0
    /\ applied = << >>
    /\ vpc = "raw"
    /\ rframe = << >>
    /\ rout = << >>
    /\ storage = [absent |-> {}, shape |-> [f \in FeatureFiles |-> "ok"],
                  content |-> FixtureContents]
    /\ ModelsIdle
    /\ fstore = [preprocessors |-> TRUE, pcaNames |-> TRUE,
                 contract |-> [present |-> TRUE, shape |-> "ok", cols |-> TrainContract]]
    /\ FeatIdle
    /\ ExplainIdle
    /\ ApiIdle
    /\ UiIdle

NextFit ==
    \/ FitRun
    \/ \E i \in 1..MaxBatch : ApplyRun(i)

SpecFit == InitFit /\ [][NextFit]_vars

\* a caller builds the dict of the training transaction the apply-mode run
\* was given
BuildRequest(kind) ==
    /\ vpc = "applied"
    /\ LET processed == fitted.frame[CHOOSE k \in 1..Len(fitted.frame) :
                                         fitted.frame[k].index = arow - 1].row
       IN  xrow' = [NoRows EXCEPT
                      !.input = RequestFor(kind, batch[arow], processed, applied[1].row)]
    /\ vpc' = "request"
    /\ UNCHANGED << rng, min_periods, batch, fitted, arow, applied, rframe, rout >>
    /\ UNCHANGED << xin, xout, xpc >>
    /\ UNCHANGED << modelVars, featVars, apiVars, uiVars >>

\* explain_transaction: prepare_features runs feature_pipeline on the dict
RunPipeline ==
    /\ vpc = "request"
    /\ xrow' = [xrow EXCEPT
                   !.piped = FeaturePipelineValues(DataFrame(<< xrow.input >>), FALSE,
                                                   fitted.preprocessors, rng,
                                                   min_periods).frame]
    /\ vpc' = "piped"
    /\ UNCHANGED << rng, min_periods, batch, fitted, arow, applied, rframe, rout >>
    /\ UNCHANGED << xin, xout, xpc >>
    /\ UNCHANGED << modelVars, featVars, apiVars, uiVars >>

\* predict(input_dict) scores the dict, and explain_transaction slices the
\* row for the explainer
ScoreAndExplain ==
    /\ vpc = "piped"
    /\ xrow' = [xrow EXCEPT
                   !.scoring = ScoringRow(EngineeredArtifacts, xrow.input),
                   !.explain = ExplainRow(EngineeredArtifacts, xrow.input, fitted,
                                          xrow.piped[1].row)]
    /\ vpc' = "explained"
    /\ UNCHANGED << rng, min_periods, batch, fitted, arow, applied, rframe, rout >>
    /\ UNCHANGED << xin, xout, xpc >>
    /\ UNCHANGED << modelVars, featVars, apiVars, uiVars >>

NextRows ==
    \/ FitRun
    \/ \E i \in 1..MaxBatch : ApplyRun(i)
    \/ \E kind \in RequestKinds : BuildRequest(kind)
    \/ RunPipeline
    \/ ScoreAndExplain

SpecRows == InitFit /\ [][NextRows]_vars

\* The frames add_rolling_features is handed: one row per second, each with
\* an account and an amount, timestamps added.
RollFrame(accounts, amounts) ==
    TimestampValues(DataFrame(
        [k \in 1..Len(accounts) |->
            ("Time" :> k) @@ ("Amount" :> amounts[k]) @@ ("account_id" :> accounts[k])]))

RollFrames ==
    UNION {{RollFrame(acc, amt) : acc \in [1..n -> Draws], amt \in [1..n -> 1..MaxAmount]} :
              n \in 1..MaxRows}

\* df = add_rolling_features(df)
RollingRun ==
    /\ vpc = "roll"
    /\ rout' = RollingValues(rframe, min_periods)
    /\ vpc' = "rolled"
    /\ UNCHANGED << rng, min_periods, batch, fitted, arow, applied, rframe >>
    /\ UNCHANGED outsideValues

\* A healthy installation in which nothing has been called yet.
Installed ==
    /\ storage = [absent |-> {}, shape |-> [f \in FeatureFiles |-> "ok"],
                  content |-> FixtureContents]
    /\ ModelsIdle
    /\ fstore = [preprocessors |-> TRUE, pcaNames |-> TRUE,
                 contract |-> [present |-> TRUE, shape |-> "ok", cols |-> TrainContract]]
    /\ FeatIdle

\* return top_k_features(shap_vals, xgb_df, k)
TopKCall ==
    /\ xpc = "call"
    /\ xout' = TopKFeatures(xin.shap_values, xin.xgb_df, xin.k)
    /\ xpc' = "done"
    /\ UNCHANGED << xin, xrow >>
    /\ UNCHANGED outsideExplain

InitRoll ==
    /\ rframe \in RollFrames
    /\ min_periods \in {0, Window}
    /\ vpc = "roll"
    /\ rout = << >>
    /\ rng = [k \in 1..StreamLen |-> 0]
    /\ batch = << >>
    /\ fitted = NoFit
    /\ arow = 0
    /\ applied = << >>
    /\ Installed
    /\ ExplainIdle
    /\ ApiIdle
    /\ UiIdle

NextRoll == RollingRun

SpecRoll == InitRoll /\ [][NextRoll]_vars

InitTopK ==
    /\ xin \in TopKInputs
    /\ xout = << >>
    /\ xpc = "call"
    /\ xrow = NoRows
    /\ Installed
    /\ ValuesIdle
    /\ ApiIdle
    /\ UiIdle

NextTopK == TopKCall

SpecTopK == InitTopK /\ [][NextTopK]_vars

\* uvicorn src.api.main:app : the module is imported, then the startup hook
\* runs
ApiBoot ==
    /\ app.phase = "off"
    /\ app' = Boot(storage)
    /\ UNCHANGED << areq, aresp >>
    /\ UNCHANGED outsideApi

\* A client posts {"data": input} to /predict and gets its answer.
ApiPredict(input) ==
    /\ app.phase # "off"
    /\ areq' = input
    /\ aresp' = IF app.phase = "up" THEN PredictHandler(app.models, input)
                ELSE ConnectionRefused
    /\ UNCHANGED app
    /\ UNCHANGED outsideApi

InitApi ==
    /\ storage \in StorageStates
    /\ ModelsIdle
    /\ fstore = [preprocessors |-> TRUE, pcaNames |-> TRUE,
                 contract |-> [present |-> TRUE, shape |-> "ok", cols |-> TrainContract]]
    /\ FeatIdle
    /\ ValuesIdle
    /\ ExplainIdle
    /\ ApiIdle
    /\ UiIdle

NextApi ==
    \/ ApiBoot
    \/ \E input \in Inputs : ApiPredict(input)

SpecApi == InitApi /\ [][NextApi]_vars

\* A click on "Load demo transaction": the callback, then a run of the script
\* that analyses nothing.
LoadDemo ==
    /\ upc = "idle"
    /\ session' = LoadDemoTransaction(session)
    /\ run' = NoRun
    /\ page' = BlankPage
    /\ clicks' = [last |-> "load", odd |-> ~clicks.odd]
    /\ UNCHANGED upc
    /\ UNCHANGED outsideUi

\* The user changes a number_input; the script runs and analyses nothing.
EditWidget(w, v) ==
    /\ upc = "idle"
    /\ session.vals[w] # v
    /\ session' = [session EXCEPT !.vals[w] = v]
    /\ run' = NoRun
    /\ page' = BlankPage
    /\ clicks' = [clicks EXCEPT !.last = "edit"]
    /\ UNCHANGED upc
    /\ UNCHANGED outsideUi

\* A click on "Analyze Risk": the script runs up to the /predict request.
Analyze ==
    /\ upc = "idle"
    /\ run' = [NoRun EXCEPT !.tx = TransactionData(session)]
    /\ page' = BlankPage
    /\ upc' = "predict"
    /\ clicks' = [clicks EXCEPT !.last = IF @ = "load" THEN "load, analyze" ELSE "analyze"]
    /\ UNCHANGED session
    /\ UNCHANGED outsideUi

\* The /predict request ends; the script runs on to st.stop() or to the
\* /explain request.
PredictAnswer(r) ==
    /\ upc = "predict"
    /\ LET a == AfterPredict(session, r)
       IN  /\ run' = [run EXCEPT !.presp = r, !.label = a.label, !.score = a.score]
           /\ page' = a.page
           /\ upc' = IF a.go THEN "explain" ELSE "idle"
    /\ UNCHANGED << session, clicks >>
    /\ UNCHANGED outsideUi

\* The /explain request ends; the script runs to its end.
ExplainAnswer(r) ==
    /\ upc = "explain"
    /\ run' = [run EXCEPT !.xresp = r]
    /\ page' = AfterExplain(run.label, run.score, r)
    /\ upc' = "idle"
    /\ UNCHANGED << session, clicks >>
    /\ UNCHANGED outsideUi

InitUi ==
    /\ Installed
    /\ ValuesIdle
    /\ ExplainIdle
    /\ ApiIdle
    /\ UiIdle

NextUi ==
    \/ LoadDemo
    \/ \E w \in Widgets, v \in WidgetValues : EditWidget(w, v)
    \/ Analyze
    \/ \E r \in Answers(PredictBodies) : PredictAnswer(r)
    \/ \E r \in Answers(ExplainBodies) : ExplainAnswer(r)

SpecUi == InitUi /\ [][NextUi]_vars


\* ================================================================== claims
ModelCalls ==
    {"xgb.predict_proba", "iforest.decision_function", "autoencoder.forward",
     "stacker.predict_proba"}

BaseModelCalls == ModelCalls \ {"stacker.predict_proba"}

\* a predict() call that got past its first load_models() ended in this step
PredictEnded == ev.kind = "predict" /\ ev.err = ""

\* the union of the three feature lists on disk
RequiredOnDisk ==
    Range(storage.content.xgb) \cup Range(storage.content.iforest)
        \cup Range(storage.content.ae)

\* C1: whenever predict returns, its label is "fraud" exactly when the score
\* is at least the final_threshold of the metrics file, and "legit" otherwise;
\* a score equal to the threshold gives "fraud".
C1_ThresholdBoundary ==
    (PredictEnded /\ ev.res.out = "ok") =>
        /\ ev.res.label \in {"fraud", "legit"}
        /\ (ev.res.label = "fraud") <=> (ev.res.score >= storage.content.thr)

C1_Witness ==
    /\ PredictEnded /\ ev.res.out = "ok"
    /\ ev.res.score = storage.content.thr
    /\ ev.res.label = "fraud"

\* C2: a predict() call on a dict that lacks a name of the union of the three
\* feature lists raises "Missing required features" listing exactly the absent
\* names, reaches no model (base or stacker) and builds no meta vector.
C2_MissingFeatureRejected ==
    (PredictEnded /\ ev.input.isdict /\ RequiredOnDisk \ DOMAIN ev.input.vals # {}) =>
        /\ ev.res.out = "ValueError:Missing required features"
        /\ Range(ev.res.detail) = RequiredOnDisk \ DOMAIN ev.input.vals
        /\ Len(ev.res.detail) = Cardinality(Range(ev.res.detail))
        /\ Range(ev.res.trace) \cap ModelCalls = {}
        /\ ev.res.metarow = << >> /\ ev.res.xmeta = << >>

C2_Witness ==
    /\ PredictEnded /\ ev.input.isdict
    /\ Cardinality(RequiredOnDisk \ DOMAIN ev.input.vals) = 2
    /\ Cardinality(RequiredOnDisk \cap DOMAIN ev.input.vals) >= 2
    /\ ev.res.out = "ValueError:Missing required features"

\* C3: prepare_features returns a frame only when the produced column set is
\* the contract file's set; when the guard finds them different, in either
\* direction, it raises the mismatch error whose Missing list is exactly
\* expected minus produced and whose Extra list is exactly produced minus
\* expected, and nothing is returned.
C3_ContractGuardExact ==
    LET expected == fstore.contract.cols
    IN  fev.kind = "prepare_features" =>
          /\ fev.out = "ok" =>
                /\ fstore.contract.present /\ fstore.contract.shape = "ok"
                /\ fev.produced = expected
                /\ fev.returned.cols = expected
          /\ (fev.stage = "guard" /\ fev.produced # expected) =>
                /\ fev.out = "ValueError:Feature contract mismatch"
                /\ Range(fev.missing) = expected \ fev.produced
                /\ Range(fev.extra) = fev.produced \ expected
                /\ Len(fev.missing) = Cardinality(expected \ fev.produced)
                /\ Len(fev.extra) = Cardinality(fev.produced \ expected)
                /\ fev.returned = NoFrame

C3_Witness ==
    /\ fev.kind = "prepare_features"
    /\ fev.out = "ValueError:Feature contract mismatch"
    /\ fev.missing = << "cluster_id" >>
    /\ fev.extra = << "Class", "device_freq", "note" >>

\* C4 (as claimed): with the training contract frozen, a raw row that omits
\* exactly one training column fails at the guard with Missing = that column
\* and nothing extra, and a raw row with exactly one more column fails at the
\* guard with Extra = that column and nothing missing.
C4_GuardNamesTheColumn ==
    (/\ fev.kind = "prepare_features"
     /\ fstore.preprocessors
     /\ fstore.contract = [present |-> TRUE, shape |-> "ok", cols |-> TrainContract]
     /\ fev.raw.isdict /\ fev.raw.num = fev.raw.cols) =>
        /\ \A c \in TrainRawCols :
              fev.raw.cols = TrainRawCols \ {c} =>
                  /\ fev.stage = "guard"
                  /\ fev.out = "ValueError:Feature contract mismatch"
                  /\ fev.missing = << c >> /\ fev.extra = << >>
        /\ \A x \in fev.raw.cols \ TrainRawCols :
              fev.raw.cols = TrainRawCols \cup {x} =>
                  /\ fev.stage = "guard"
                  /\ fev.out = "ValueError:Feature contract mismatch"
                  /\ fev.extra = << x >> /\ fev.missing = << >>

\* C5 (as claimed): in every predict() call, each base model invocation comes
\* after the feature engineering pipeline and the contract guard have run on
\* the record, and a successful call runs engineering, guard, base signals,
\* assembly and decision in that order.
C5_PipelineBeforeModels ==
    PredictEnded =>
        \A i \in 1..Len(ev.res.trace) :
            ev.res.trace[i] \in BaseModelCalls =>
                \E j, k \in 1..(i - 1) :
                    /\ j < k
                    /\ ev.res.trace[j] = "feature_pipeline"
                    /\ ev.res.trace[k] = "contract_guard"

\* C6: a load_models call (direct, or the calls made inside predict) that
\* begins when the cache is set returns the cached set, reads no file, and
\* leaves the cache and every entry of it as they were.
C6_LoadModelsIdempotent ==
    (ev.kind \in {"load_models", "predict"} /\ ~IsNone(ev.atcall)) =>
        /\ ev.hit
        /\ ev.err = ""
        /\ ev.reads = 0
        /\ ev.ret = ev.before
        /\ _MODELS = ev.before
        /\ ev.ret.art = ev.atcall.art
        /\ ev.ret.art # NoArt

C6_Witness ==
    /\ ev.kind = "predict" /\ ~IsNone(ev.atcall) /\ ev.res.out = "ok"
    /\ assigns >= 1 /\ ev.ret = _MODELS

\* C7 (as claimed): whatever the interleaving of first callers, the artifact
\* set is built from storage at most once, the cache is assigned at most once,
\* and no two callers are handed different artifact-set instances.
C7_LoadedExactlyOnce ==
    /\ loads <= 1
    /\ assigns <= 1
    /\ Cardinality(returned) <= 1

\* C8: with a required file absent or a feature-list file of the wrong shape,
\* a load_models call fails and no artifact set is returned or cached: the
\* error is the not-found error when the first defective file in load order
\* is absent (so whenever absence is the only defect), and the schema error
\* when it is a feature list without a 'features' list (so whenever that is
\* the only defect).
Malformed == {f \in FeatureFiles : f \notin storage.absent /\ storage.shape[f] # "ok"}

C9_MetaVectorOrdered ==
    (PredictEnded /\ ev.res.out = "ok") =>
        LET meta == storage.content.meta
            x == ev.res.xmeta
            in == ev.input.vals
        IN  /\ Len(x) = Len(meta)
            /\ \A i \in 1..Len(meta) :
                  x[i] = CASE meta[i] = "xgb_oof_proba" ->
                                XgbPredictProba(Slice(in, storage.content.xgb))
                           [] meta[i] = "anomaly_score" ->
                                0 - IForestDecisionFunction(Slice(in, storage.content.iforest))
                           [] meta[i] = "ae_recon_error" ->
                                SumSqDiff(AutoencoderForward(Slice(in, storage.content.ae)),
                                          Slice(in, storage.content.ae))
                                    \div Len(storage.content.ae)
                           [] OTHER -> in[meta[i]]

C9_Witness ==
    /\ PredictEnded /\ ev.res.out = "ok"
    /\ storage.content.meta[1] = "last_5_mean_amount"
    /\ ev.res.xmeta[1] = ev.input.vals["last_5_mean_amount"]
    /\ ev.res.metarow[1][1] = "xgb_oof_proba"
    /\ ev.res.metarow[1][2] # ev.res.xmeta[1]

\* C10: once the name-to-value mapping is assembled, a meta_features name
\* that is not in it makes the call raise "Missing meta features" listing
\* every absent name, and the stacker is not invoked.
C10_MissingMetaRejected ==
    LET absent == Range(storage.content.meta) \ RowNames(ev.res.metarow)
    IN  (PredictEnded /\ ev.res.metarow # << >> /\ absent # {}) =>
            /\ ev.res.out = "ValueError:Missing meta features"
            /\ Range(ev.res.detail) = absent
            /\ "stacker.predict_proba" \notin Range(ev.res.trace)
            /\ ev.res.xmeta = << >>

C10_Witness ==
    /\ PredictEnded
    /\ ev.res.out = "ValueError:Missing meta features"
    /\ ev.res.detail = << "device_freq", "feat_1" >>
    /\ "xgb.predict_proba" \in Range(ev.res.trace)

RowAt(df, label) == df[CHOOSE k \in 1..Len(df) : df[k].index = label].row

\* the engineered row of the training row given to the apply-mode run, as the
\* fit-mode run over the batch produced it, and as that apply-mode run did
FitRow == RowAt(fitted.frame, arow - 1)

ApplyRow == applied[1].row

\* C12 (as claimed): for a training row, the fit-mode run over the batch and
\* the apply-mode run on the single row with the frozen preprocessors give
\* the same columns and the same value in every column.
C12_FitApplyEquivalent ==
    vpc = "applied" =>
        /\ DOMAIN FitRow = DOMAIN ApplyRow
        /\ \A c \in DOMAIN FitRow : FitRow[c] = ApplyRow[c]

\* C13: top_k_features returns min(k, n) entries, each a different feature,
\* in order of non-increasing absolute attribution; no feature left out has
\* a larger absolute attribution than a returned one; and each entry holds
\* the name of a feature, that feature's signed attribution and that
\* feature's value in the explained row.
Returned == {xout[i].feature : i \in 1..Len(xout)}

C13_TopKRanked ==
    xpc = "done" =>
        LET cols == xin.xgb_df.columns
            n == Len(xin.shap_values)
        IN  /\ Len(xout) = Smaller(xin.k, n)
            /\ Cardinality(Returned) = Len(xout)
            /\ \A i, j \in 1..Len(xout) :
                   i < j => Abs(xout[i].shap_value) >= Abs(xout[j].shap_value)
            /\ \A c \in 1..n : cols[c] \notin Returned =>
                   \A i \in 1..Len(xout) :
                       Abs(xin.shap_values[c]) <= Abs(xout[i].shap_value)
            /\ \A i \in 1..Len(xout) : \E c \in 1..n :
                   /\ xout[i].feature = cols[c]
                   /\ xout[i].shap_value = xin.shap_values[c]
                   /\ xout[i].value = xin.xgb_df.row[cols[c]]

\* three features, two entries asked for: the second and third columns tie
\* in absolute attribution with opposite signs, the first is left out
C13_Witness ==
    /\ xpc = "done"
    /\ xin.k = 2
    /\ xin.shap_values = << 0, 0 - 1, 1 >>
    /\ xin.xgb_df.row["V2"] # xin.xgb_df.row["V3"]
    /\ Len(xout) = 2
    /\ xout[1].feature = "V2"
    /\ xout[2].feature = "V3"

\* C14: when the explanation computation fails for a request whose decision
\* the core predict() computes, the caller still gets that score and label,
\* with the explanation marked unavailable; the request does not fail.
CoreDecision == Predict(BuildArtifacts(storage), BuildArtifacts(storage), areq)

Decided == Healthy(storage) /\ CoreDecision.out = "ok"

ExplanationFails == ImportExplain # ""

C14_DecisionSurvivesExplainFailure ==
    (aresp # NoResponse /\ Decided /\ ExplanationFails) =>
        /\ aresp.kind = "http"
        /\ aresp.status = 200
        /\ aresp.body.score = CoreDecision.score
        /\ aresp.body.label = CoreDecision.label
        /\ aresp.body.top_features = "unavailable"

ShowsDecision ==
    page.decision # "" \/ page.probability # << >> \/ page.line # ""

NoDecisionFor(failed) ==
    /\ failed =>
          /\ upc = "idle"
          /\ page.error = "Prediction failed"
          /\ ~ShowsDecision
    /\ ShowsDecision =>
          /\ run.presp.kind = "http"
          /\ run.presp.body.type = "object"
          /\ run.presp.body.label \in {"fraud", "legit"}

UnknownLabel ==
    /\ run.presp.kind = "http" /\ run.presp.status = 200
    /\ run.presp.body.type = "object"
    /\ run.presp.body.label \notin {"fraud", "legit"}

NonNumericRequired == ev.input.bad \cap RequiredOnDisk

C18_NonNumericFieldNamed ==
    (PredictEnded /\ ev.input.isdict /\ NonNumericRequired # {}) =>
        /\ ev.res.out = "TypeError:must be numeric"
        /\ Len(ev.res.detail) = 1
        /\ ev.res.detail[1] \in NonNumericRequired
        /\ Range(ev.res.trace) \cap ModelCalls = {}

\* C19: for every row of a batch, last_5_mean_amount and last_5_count come
\* from the rows of the same account with a strictly earlier timestamp only:
\* they are 0 when there is none, and they do not change when the amount of
\* the row itself or of a row of another account changes.
Prior(df, i) ==
    {j \in 1..Len(df) :
        /\ Col(df, j, "account_id") = Col(df, i, "account_id")
        /\ Col(df, j, "timestamp").seconds < Col(df, i, "timestamp").seconds}

\* the frames that differ from rframe only in amounts outside the prior rows
\* of row i
VariantsOutsidePrior(i) ==
    {RollFrame([k \in 1..Len(rframe) |-> Col(rframe, k, "account_id")], amt) :
        amt \in {a \in [1..Len(rframe) -> 1..MaxAmount] :
                    \A j \in Prior(rframe, i) : a[j] = Col(rframe, j, "Amount")}}

RollingOf(df, i) ==
    LET r == RowAt(RollingValues(df, min_periods), i - 1)
    IN  << r["last_5_mean_amount"], r["last_5_count"] >>

C19_RollingFromOwnPast ==
    vpc = "rolled" =>
        \A i \in 1..Len(rframe) :
            /\ Prior(rframe, i) = {} =>
                   /\ RowAt(rout, i - 1)["last_5_mean_amount"] = Ratio(0, 1)
                   /\ RowAt(rout, i - 1)["last_5_count"] = Ratio(0, 1)
            /\ \A g \in VariantsOutsidePrior(i) :
                   RollingOf(g, i) = << RowAt(rout, i - 1)["last_5_mean_amount"],
                                        RowAt(rout, i - 1)["last_5_count"] >>

\* C20: in an apply-mode row, merchant_freq, device_freq, account_txn_count
\* and the four *_fe columns are the number of rows of the fitted population
\* that carry the row's id (0 for an id the population does not have).
FittedCount(c) == ValueCount(fitted.frame, c, ApplyRow[c])

C20_FrequenciesFromFittedPopulation ==
    vpc = "applied" =>
        /\ ApplyRow["merchant_freq"] = FittedCount("merchant_id")
        /\ ApplyRow["device_freq"] = FittedCount("device_type")
        /\ ApplyRow["account_txn_count"] = FittedCount("account_id")
        /\ \A i \in 1..Len(CatCols) :
               ApplyRow[CatCols[i] \o "_fe"] = FittedCount(CatCols[i])

\* the *_fe columns alone
C20_EncodingsFromFittedPopulation ==
    vpc = "applied" =>
        \A i \in 1..Len(CatCols) :
            ApplyRow[CatCols[i] \o "_fe"] = FittedCount(CatCols[i])

\* C21 (as claimed): whenever predict() scores an input, the row
\* explain_transaction hands to the explainer for that input is the row
\* compute_base_signals handed to the tree model: same names, same order,
\* same values.
C21_ExplainedRowIsScoredRow ==
    vpc = "explained" /\ xrow.scoring.err = "" =>
        /\ xrow.explain.err = ""
        /\ xrow.explain.row = xrow.scoring.row

\* the ten entries of an artifact set are all there
CompleteSet(art) ==
    /\ art.stacker # "" /\ art.xgb # "" /\ art.iforest # "" /\ art.autoencoder # ""
    /\ art.xgb_features # << >> /\ art.iforest_features # << >>
    /\ art.ae_features # << >>
    /\ art.meta_features # << >>
    /\ art.required_input_features # << >>
    /\ art = BuildArtifacts(storage)

\* a load_models call (direct, or predict's first) raised while loading
LoadRaised == ev.kind # "" /\ ev.file # ""

\* C22: the cache is at every moment empty or a complete artifact set with
\* all ten entries; a load_models call that raises at any step leaves it
\* empty, and a call that finds it empty reads the files from the first one.
C22_CacheEmptyOrComplete ==
    /\ IF IsNone(_MODELS) THEN _MODELS.art = NoArt ELSE CompleteSet(_MODELS.art)
    /\ LoadRaised => IsNone(_MODELS) /\ IsNone(ev.before)
    /\ ev.kind # "" /\ IsNone(ev.atcall) => ~ev.hit /\ ev.reads >= 1

\* a load raised at the fifth file while another thread is still reading,
\* and the cache is empty
C22_Witness ==
    /\ LoadRaised
    /\ ev.reads = 5
    /\ IsNone(_MODELS)
    /\ \E t \in Threads : pc[t] = "read"

\* a predict() call that loaded the artifacts and whose input passed
\* validate_input
PassedValidation ==
    /\ ev.kind = "predict"
    /\ ev.file = ""
    /\ ValidateInput(ev.ret.art, ev.input).err = ""

\* C23 (as claimed): for an input that passes validate_input,
\* build_meta_features returns the meta vector or raises "Missing meta
\* features"; it never fails looking up a contextual column, whatever the
\* feature lists and the meta-feature list contain.
C23_ContextColumnsValidated ==
    PassedValidation =>
        ev.res.out \in {"ok", "ValueError:Missing meta features"}

\* C24 (as claimed): whenever the page shows a decision, its label is the
\* label of the /predict response of that analysis and its score is that
\* response's score (to the two decimals shown), in every demo mode.
C24_ShownDecisionIsTheServices ==
    page.decision # "" =>
        LET body == run.presp.body
        IN  /\ page.decision = (IF body.label = "fraud" THEN "FRAUD" ELSE "LEGIT")
            /\ body.score.kind = "number" =>
                   page.probability = << Format2(body.score.val) >>

\* the payload the last click on "Load demo transaction" loaded if the
\* loads alternate starting with the normal one
LoadedByTurn == IF clicks.odd THEN NORMAL_DEMO ELSE FRAUD_DEMO

\* the request that carries a payload: its Time, its Amount and its
\* components, 0.0 for the components it does not have
RequestOf(payload) ==
    [k \in {"Time", "Amount"} \cup Range(VNames) |-> Get(payload, k, 0)]

\* successive loads alternate between the two payloads, the normal one first
C25_LoadsAlternate ==
    clicks.last \in {"load", "load, analyze"} =>
        \A k \in DOMAIN LoadedByTurn : session.vals[k] = LoadedByTurn[k]

\* C25 (as claimed): successive clicks on "Load demo transaction" alternate
\* between the normal and the fraud payload, the normal one first, and an
\* "Analyze Risk" click right after a load sends the payload just loaded:
\* its Time, its Amount and its components, 0.0 for those it lacks.
C25_AnalyzeSendsLoadedDemo ==
    /\ C25_LoadsAlternate
    /\ clicks.last = "load, analyze" => run.tx = RequestOf(LoadedByTurn)

====
